---- MODULE Spec2Model ----
(***************************************************************************)
(* Cloud security scanner: paginated enumeration of a remote file store,   *)
(* file-name classification, file-tree reconstruction (parent-graph for    *)
(* Google Drive, flat-path for Dropbox), severity ordering of the findings *)
(* and the per-provider scan cache of the `scan` command.                  *)
(*                                                                         *)
(* Strings the program takes apart (names, paths, Dropbox ids) are         *)
(* sequences of one-character strings.                                      *)
(***************************************************************************)
EXTENDS Integers, Sequences, FiniteSets, TLC

----------------------------------------------------------------------------
(* Bounds of the model *)

\* records the remote account holds at most
MaxFiles == 3
\* entries the remote returns per page (pageSize: 100 in the Drive request)
PageSize == 2

----------------------------------------------------------------------------
(* JavaScript string primitives used by the program *)

UpperCase == <<"A","B","C","D","E","F","G","H","I","J","K","L","M",
               "N","O","P","Q","R","S","T","U","V","W","X","Y","Z">>
LowerCase == <<"a","b","c","d","e","f","g","h","i","j","k","l","m",
               "n","o","p","q","r","s","t","u","v","w","x","y","z">>

\* canonical form of one character under the regular expressions' i flag
Canonicalize(c) ==
  IF \E i \in 1..Len(UpperCase) : UpperCase[i] = c
  THEN LowerCase[CHOOSE i \in 1..Len(UpperCase) : UpperCase[i] = c]
  ELSE c

\* one pattern element against one character: a literal (i flag) or the class [_-]
ElemMatches(e, c) ==
  IF e = "[_-]" THEN c \in {"_", "-"} ELSE Canonicalize(c) = e

\* a pattern is its element sequence and whether it ends in $
AtEnd(elems) == [elems |-> elems, anchored |-> TRUE]
Anywhere(elems) == [elems |-> elems, anchored |-> FALSE]

\* faulty variant: the pattern has to match the whole string
RegExpTestWhole(pattern, str) ==
  LET n == Len(pattern.elems)
  IN /\ n = Len(str)
     /\ \A k \in 1..n : ElemMatches(pattern.elems[k], str[k])

\* pattern.test(str): some occurrence of the elements, at the end when anchored
RegExpTest(pattern, str) ==
  LET n == Len(pattern.elems)
  IN \E s \in 0..(Len(str) - n) :
       /\ \A k \in 1..n : ElemMatches(pattern.elems[k], str[s + k])
       /\ pattern.anchored => s + n = Len(str)

\* str.split('/'): the pieces between the slashes, empty pieces kept
RECURSIVE SplitFrom(_, _, _)
SplitFrom(str, i, piece) ==
  IF i > Len(str) THEN <<piece>>
  ELSE IF str[i] = "/" THEN <<piece>> \o SplitFrom(str, i + 1, <<>>)
  ELSE SplitFrom(str, i + 1, Append(piece, str[i]))

Split(str) == SplitFrom(str, 1, <<>>)

\* pieces.join('/')
RECURSIVE Join(_)
Join(pieces) ==
  IF pieces = <<>> THEN <<>>
  ELSE IF Len(pieces) = 1 THEN pieces[1]
  ELSE pieces[1] \o <<"/">> \o Join(Tail(pieces))

\* pieces.filter(p => p): the non-empty pieces
NonEmptyParts(pieces) == SelectSeq(pieces, LAMBDA p : p # <<>>)

\* keys every plain object inherits from Object.prototype (among the names used)
ObjectPrototypeKeys == { <<"c","o","n","s","t","r","u","c","t","o","r">> }

----------------------------------------------------------------------------
(* The risk catalog and the classifier *)

Rule(patterns, type, severity) ==
  [patterns |-> patterns, type |-> type, severity |-> severity]

riskPatterns ==
  << Rule(<<AtEnd(<<".", "e", "n", "v">>),
            AtEnd(<<".", "e", "n", "v", "i", "r", "o", "n", "m", "e", "n", "t">>),
            AtEnd(<<".", "e", "n", "v", ".", "l", "o", "c", "a", "l">>),
            AtEnd(<<".", "e", "n", "v", ".", "p", "r", "o", "d">>),
            AtEnd(<<".", "e", "n", "v", ".", "p", "r", "o", "d", "u", "c", "t", "i", "o", "n">>)>>,
          "Environment Configuration File", "HIGH"),
     Rule(<<AtEnd(<<".", "k", "e", "y">>),
            AtEnd(<<".", "p", "e", "m">>),
            AtEnd(<<".", "c", "r", "t">>),
            AtEnd(<<".", "c", "e", "r">>),
            AtEnd(<<".", "d", "e", "r">>)>>,
          "Cryptographic Key/Certificate", "HIGH"),
     Rule(<<AtEnd(<<".", "p", "1", "2">>),
            AtEnd(<<".", "p", "f", "x">>),
            AtEnd(<<".", "j", "k", "s">>),
            AtEnd(<<".", "k", "e", "y", "s", "t", "o", "r", "e">>),
            AtEnd(<<".", "t", "r", "u", "s", "t", "s", "t", "o", "r", "e">>)>>,
          "Certificate Store", "HIGH"),
     Rule(<<AtEnd(<<"i", "d", "_", "r", "s", "a">>),
            AtEnd(<<"i", "d", "_", "d", "s", "a">>),
            AtEnd(<<"i", "d", "_", "e", "c", "d", "s", "a">>),
            AtEnd(<<"i", "d", "_", "e", "d", "2", "5", "5", "1", "9">>),
            AtEnd(<<"k", "n", "o", "w", "n", "_", "h", "o", "s", "t", "s">>),
            AtEnd(<<"a", "u", "t", "h", "o", "r", "i", "z", "e", "d", "_", "k", "e", "y", "s">>)>>,
          "SSH Keys/Config", "HIGH"),
     Rule(<<AtEnd(<<".", "a", "w", "s">>),
            AtEnd(<<"c", "r", "e", "d", "e", "n", "t", "i", "a", "l", "s">>),
            AtEnd(<<"a", "w", "s", "_", "c", "r", "e", "d", "e", "n", "t", "i", "a", "l", "s">>),
            AtEnd(<<".", "s", "3", "c", "f", "g">>)>>,
          "AWS/Cloud Credentials", "HIGH"),
     Rule(<<AtEnd(<<"g", "c", "l", "o", "u", "d">>),
            AtEnd(<<".", "g", "c", "p">>),
            AtEnd(<<"s", "e", "r", "v", "i", "c", "e", "[_-]", "a", "c", "c", "o", "u", "n", "t", ".", "j", "s", "o", "n">>),
            Anywhere(<<"f", "i", "r", "e", "b", "a", "s", "e", "[_-]", "a", "d", "m", "i", "n", "s", "d", "k">>)>>,
          "Google Cloud Credentials", "HIGH"),
     Rule(<<AtEnd(<<".", "a", "z", "u", "r", "e">>),
            AtEnd(<<"a", "z", "u", "r", "e", "[_-]", "c", "r", "e", "d", "e", "n", "t", "i", "a", "l", "s">>),
            AtEnd(<<".", "a", "z", "u", "r", "e", "p", "r", "o", "f", "i", "l", "e">>)>>,
          "Azure Credentials", "HIGH"),
     Rule(<<Anywhere(<<"p", "a", "s", "s", "w", "o", "r", "d">>),
            Anywhere(<<"p", "a", "s", "s", "w", "d">>),
            Anywhere(<<"p", "w", "d">>),
            Anywhere(<<"l", "o", "g", "i", "n">>),
            Anywhere(<<"a", "u", "t", "h">>)>>,
          "Password/Authentication File", "HIGH"),
     Rule(<<Anywhere(<<"s", "e", "c", "r", "e", "t">>),
            Anywhere(<<"c", "r", "e", "d", "e", "n", "t", "i", "a", "l">>),
            Anywhere(<<"t", "o", "k", "e", "n">>),
            Anywhere(<<"a", "p", "i", "[_-]", "k", "e", "y">>)>>,
          "Secrets/API Keys", "HIGH"),
     Rule(<<AtEnd(<<".", "h", "t", "p", "a", "s", "s", "w", "d">>),
            AtEnd(<<".", "n", "e", "t", "r", "c">>),
            AtEnd(<<".", "p", "g", "p", "a", "s", "s">>)>>,
          "System Password Files", "HIGH"),
     Rule(<<AtEnd(<<".", "s", "q", "l">>),
            AtEnd(<<".", "d", "u", "m", "p">>),
            AtEnd(<<".", "d", "b">>),
            AtEnd(<<".", "s", "q", "l", "i", "t", "e">>),
            AtEnd(<<".", "s", "q", "l", "i", "t", "e", "3">>)>>,
          "Database File", "MEDIUM"),
     Rule(<<AtEnd(<<".", "m", "d", "b">>),
            AtEnd(<<".", "a", "c", "c", "d", "b">>),
            AtEnd(<<".", "d", "b", "f">>),
            AtEnd(<<".", "f", "d", "b">>)>>,
          "Desktop Database", "MEDIUM"),
     Rule(<<AtEnd(<<".", "b", "a", "k">>),
            Anywhere(<<"b", "a", "c", "k", "u", "p">>),
            AtEnd(<<".", "o", "l", "d">>),
            AtEnd(<<".", "o", "r", "i", "g">>),
            AtEnd(<<".", "s", "a", "v", "e">>)>>,
          "Backup File", "MEDIUM"),
     Rule(<<AtEnd(<<".", "t", "a", "r">>),
            AtEnd(<<".", "z", "i", "p">>),
            AtEnd(<<".", "7", "z">>),
            AtEnd(<<".", "r", "a", "r">>),
            AtEnd(<<".", "g", "z">>),
            AtEnd(<<".", "t", "g", "z">>)>>,
          "Archive File", "LOW"),
     Rule(<<AtEnd(<<"c", "o", "n", "f", "i", "g">>),
            AtEnd(<<".", "c", "o", "n", "f", "i", "g">>),
            AtEnd(<<".", "c", "o", "n", "f">>),
            AtEnd(<<".", "i", "n", "i">>),
            AtEnd(<<".", "c", "f", "g">>)>>,
          "Configuration File", "MEDIUM"),
     Rule(<<AtEnd(<<".", "p", "r", "o", "p", "e", "r", "t", "i", "e", "s">>),
            AtEnd(<<".", "s", "e", "t", "t", "i", "n", "g", "s">>),
            AtEnd(<<".", "p", "l", "i", "s", "t">>)>>,
          "Application Settings", "MEDIUM"),
     Rule(<<AtEnd(<<".", "g", "i", "t">>),
            AtEnd(<<".", "s", "v", "n">>),
            AtEnd(<<".", "h", "g">>)>>,
          "Version Control Directory", "MEDIUM"),
     Rule(<<AtEnd(<<"d", "o", "c", "k", "e", "r", "f", "i", "l", "e">>),
            Anywhere(<<"d", "o", "c", "k", "e", "r", "-", "c", "o", "m", "p", "o", "s", "e">>),
            AtEnd(<<".", "d", "o", "c", "k", "e", "r", "i", "g", "n", "o", "r", "e">>)>>,
          "Docker Configuration", "LOW"),
     Rule(<<Anywhere(<<"t", "a", "x">>),
            Anywhere(<<"s", "a", "l", "a", "r", "y">>),
            Anywhere(<<"p", "a", "y", "r", "o", "l", "l">>),
            Anywhere(<<"i", "n", "v", "o", "i", "c", "e">>),
            Anywhere(<<"r", "e", "c", "e", "i", "p", "t">>)>>,
          "Financial Document", "MEDIUM"),
     Rule(<<Anywhere(<<"s", "o", "c", "i", "a", "l", "[_-]", "s", "e", "c", "u", "r", "i", "t", "y">>),
            Anywhere(<<"s", "s", "n">>),
            Anywhere(<<"p", "a", "s", "s", "p", "o", "r", "t">>),
            Anywhere(<<"l", "i", "c", "e", "n", "s", "e">>)>>,
          "Identity Document", "HIGH"),
     Rule(<<Anywhere(<<"m", "e", "d", "i", "c", "a", "l">>),
            Anywhere(<<"h", "e", "a", "l", "t", "h">>),
            Anywhere(<<"p", "a", "t", "i", "e", "n", "t">>),
            Anywhere(<<"d", "i", "a", "g", "n", "o", "s", "i", "s">>)>>,
          "Medical Record", "HIGH"),
     Rule(<<AtEnd(<<".", "p", "s", "t">>),
            AtEnd(<<".", "o", "s", "t">>),
            AtEnd(<<".", "m", "b", "o", "x">>),
            AtEnd(<<".", "e", "m", "l">>)>>,
          "Email Archive", "MEDIUM"),
     Rule(<<AtEnd(<<".", "m", "s", "g">>),
            Anywhere(<<"m", "a", "i", "l", "b", "o", "x">>),
            Anywhere(<<"m", "e", "s", "s", "a", "g", "e", "s">>)>>,
          "Email/Message File", "MEDIUM"),
     Rule(<<AtEnd(<<".", "n", "p", "m", "r", "c">>),
            AtEnd(<<".", "p", "y", "p", "i", "r", "c">>),
            AtEnd(<<".", "g", "e", "m", "r", "c">>),
            AtEnd(<<"c", "o", "m", "p", "o", "s", "e", "r", ".", "j", "s", "o", "n">>)>>,
          "Package Manager Config", "MEDIUM"),
     Rule(<<AtEnd(<<".", "k", "d", "b", "x">>),
            AtEnd(<<".", "k", "d", "b">>),
            AtEnd(<<"k", "e", "y", "c", "h", "a", "i", "n">>),
            Anywhere(<<"v", "a", "u", "l", "t">>)>>,
          "Password Manager File", "HIGH"),
     Rule(<<AtEnd(<<".", "r", "d", "p">>),
            AtEnd(<<".", "v", "n", "c">>),
            AtEnd(<<".", "t", "e", "a", "m", "v", "i", "e", "w", "e", "r">>)>>,
          "Remote Access Config", "MEDIUM"),
     Rule(<<AtEnd(<<".", "l", "o", "g">>),
            Anywhere(<<"e", "r", "r", "o", "r">>),
            Anywhere(<<"d", "e", "b", "u", "g">>),
            Anywhere(<<"t", "r", "a", "c", "e">>)>>,
          "Log File", "LOW"),
     Rule(<<Anywhere(<<"p", "r", "i", "v", "a", "t", "e">>),
            Anywhere(<<"c", "o", "n", "f", "i", "d", "e", "n", "t", "i", "a", "l">>),
            Anywhere(<<"i", "n", "t", "e", "r", "n", "a", "l">>),
            Anywhere(<<"r", "e", "s", "t", "r", "i", "c", "t", "e", "d">>)>>,
          "Classified File", "MEDIUM"),
     Rule(<<AtEnd(<<".", "j", "s", "o", "n">>),
            AtEnd(<<".", "x", "m", "l">>),
            AtEnd(<<".", "y", "m", "l">>),
            AtEnd(<<".", "y", "a", "m", "l">>),
            AtEnd(<<".", "t", "o", "m", "l">>)>>,
          "Structured Config File", "LOW"),
     Rule(<<AtEnd(<<"c", "o", "r", "e">>),
            Anywhere(<<"c", "r", "a", "s", "h">>),
            Anywhere(<<"m", "i", "n", "i", "d", "u", "m", "p">>),
            AtEnd(<<".", "d", "m", "p">>)>>,
          "System Crash/Core Dump", "MEDIUM"),
     Rule(<<AtEnd(<<"h", "i", "s", "t", "o", "r", "y">>),
            AtEnd(<<".", "b", "a", "s", "h", "_", "h", "i", "s", "t", "o", "r", "y">>),
            AtEnd(<<".", "z", "s", "h", "_", "h", "i", "s", "t", "o", "r", "y">>),
            AtEnd(<<".", "h", "i", "s", "t", "o", "r", "y">>)>>,
          "Command History", "MEDIUM") >>

\* one entry per rule with a matching pattern, in catalog order (forEach + push)
RECURSIVE analyzeFrom(_, _, _)
analyzeFrom(file, k, risks) ==
  IF k > Len(riskPatterns) THEN risks
  ELSE LET rule == riskPatterns[k]
           hit == \E p \in 1..Len(rule.patterns) :
                     RegExpTest(rule.patterns[p], file.name)
       IN analyzeFrom(file, k + 1,
            IF hit
            THEN Append(risks, [type |-> rule.type, severity |-> rule.severity,
                                fileName |-> file.name])
            ELSE risks)

\* faulty variant: the loop over the catalog stops at the first matching rule
analyzeFileNameFirstMatch(file) ==
  LET risks == analyzeFrom(file, 1, <<>>)
  IN IF risks = <<>> THEN risks ELSE <<risks[1]>>

analyzeFileName(file) == analyzeFrom(file, 1, <<>>)

----------------------------------------------------------------------------
(* The remote stores the scans run against *)

FolderMime == "application/vnd.google-apps.folder"

SheetMime == "application/vnd.google-apps.spreadsheet"

\* one element of response.data.files (fields id, name, mimeType, size, parents);
\* Drive reports no size for folders and Google documents
DriveFile(id, name, mimeType, parents) ==
  IF mimeType \in {FolderMime, SheetMime}
  THEN [id |-> id, name |-> name, mimeType |-> mimeType, parents |-> parents]
  ELSE [id |-> id, name |-> name, mimeType |-> mimeType, parents |-> parents,
        size |-> <<"1","2","0">>]

\* records a Drive account may hold; ids are character sequences like every
\* string of the model, a missing parents field is <<>>. 0AH is the id Drive
\* reports for the root folder, X9 a folder of another account, D4 a sheet
\* shared by another account (no parents, no size).
DrivePool ==
  { DriveFile(<<"F","1">>, <<"b","a","c","k","u","p">>, FolderMime,
              << <<"r","o","o","t">> >>),
    DriveFile(<<"F","2">>, <<".","g","i","t">>, FolderMime, << <<"F","1">> >>),
    DriveFile(<<"F","3">>, <<"b","a","c","k","u","p">>, FolderMime,
              << <<"r","o","o","t">> >>),
    DriveFile(<<"D","1">>, <<".","e","n","v">>, "text/plain", << <<"F","1">> >>),
    DriveFile(<<"D","2">>, <<".","e","n","v">>, "text/plain", << <<"F","1">> >>),
    DriveFile(<<"D","3">>, <<"n","o","t","e","s",".","t","x","t">>, "text/plain",
              << <<"0","A","H">> >>),
    DriveFile(<<"D","4">>, <<"d","b","-","b","a","c","k","u","p",".","s","q","l">>,
              SheetMime, <<>>),
    DriveFile(<<"D","5">>, <<"a","r","c","h","i","v","e",".","z","i","p">>,
              "application/zip", << <<"F","2">> >>),
    DriveFile(<<"D","6">>, <<"P","A","S","S","W","O","R","D",".","T","X","T">>,
              "text/plain", << <<"X","9">> >>),
    DriveFile(<<"D","7">>, <<"p","a","s","s","w","o","r","d","s">>, SheetMime,
              << <<"0","A","H">> >>) }

\* drive.files.get({fileId, fields: 'name, parents'}) per folder id; an id outside
\* the domain is not readable by the account (the request fails)
DriveMetadata ==
  (<<"r","o","o","t">> :>
     [name |-> <<"M","y"," ","D","r","i","v","e">>, parents |-> <<>>]) @@
  (<<"0","A","H">> :>
     [name |-> <<"M","y"," ","D","r","i","v","e">>, parents |-> <<>>]) @@
  (<<"F","1">> :>
     [name |-> <<"b","a","c","k","u","p">>, parents |-> << <<"r","o","o","t">> >>]) @@
  (<<"F","2">> :>
     [name |-> <<".","g","i","t">>, parents |-> << <<"F","1">> >>]) @@
  (<<"F","3">> :>
     [name |-> <<"b","a","c","k","u","p">>, parents |-> << <<"r","o","o","t">> >>])

\* sets of folder ids whose metadata request fails while one page is processed
LookupOutages == { {}, {<<"F","1">>}, {<<"r","o","o","t">>} }

\* one element of response.result.entries; name is the last segment of
\* path_display, only file entries carry a size
DropboxEntry(id, path, tag) ==
  LET parts == NonEmptyParts(Split(path))
  IN IF tag = "file"
     THEN [id |-> id, name |-> parts[Len(parts)], path_display |-> path, tag |-> tag,
           size |-> <<"1","2","0">>]
     ELSE [id |-> id, name |-> parts[Len(parts)], path_display |-> path, tag |-> tag]

\* entries a Dropbox account may list (id:3 is a later state of the path of id:1)
DropboxPool ==
  { DropboxEntry(<<"i","d",":","a">>, <<"/","a">>, "folder"),
    DropboxEntry(<<"i","d",":","b">>, <<"/","a","/","b">>, "folder"),
    DropboxEntry(<<"i","d",":","1">>,
      <<"/","a","/","b","/","s","e","c","r","e","t",".","k","e","y">>, "file"),
    DropboxEntry(<<"i","d",":","2">>,
      <<"/","a","/","c","/","r","e","a","d","m","e",".","t","x","t">>, "file"),
    DropboxEntry(<<"i","d",":","3">>,
      <<"/","a","/","b","/","s","e","c","r","e","t",".","k","e","y">>, "file"),
    DropboxEntry(<<"i","d",":","k">>, <<"/","b","a","c","k","u","p">>, "folder"),
    DropboxEntry(<<"i","d",":","4">>, <<"/",".","e","n","v">>, "file"),
    DropboxEntry(<<"i","d",":","5">>,
      <<"/","c","o","n","s","t","r","u","c","t","o","r">>, "file"),
    DropboxEntry(<<"i","d",":","6">>,
      <<"/","c","o","n","s","t","r","u","c","t","o","r","/",
        "n","o","t","e","s",".","t","x","t">>, "file"),
    DropboxEntry(<<"i","d",":","7">>,
      <<"/","b","a","c","k","u","p","/","d","b",".","s","q","l">>, "file") }

Providers == {"google", "dropbox"}

PoolOf(provider) == IF provider = "dropbox" THEN DropboxPool ELSE DrivePool

\* a Drive listing holds the record of every folder of the account that one of its
\* records names as primary parent
DriveListingClosed(s) ==
  \A i \in DOMAIN s :
    \A folder \in { f \in DrivePool : f.mimeType = FolderMime } :
      (s[i].parents # <<>> /\ s[i].parents[1] = folder.id)
        => \E j \in DOMAIN s : s[j] = folder

\* the listings of an account: at most MaxFiles records of the pool, in any order
Listings(provider) ==
  UNION { { s \in [1..n -> PoolOf(provider)] :
              /\ \A i, j \in 1..n : s[i] = s[j] => i = j
              /\ provider # "dropbox" => DriveListingClosed(s) } : n \in 0..MaxFiles }

\* the remote serves a listing in pages of PageSize entries, at least one page
NumPages(listing) ==
  IF Len(listing) = 0 THEN 1 ELSE (Len(listing) + PageSize - 1) \div PageSize

PageEntries(listing, k) ==
  SubSeq(listing, (k - 1) * PageSize + 1,
         IF k * PageSize < Len(listing) THEN k * PageSize ELSE Len(listing))

\* drive.files.list({pageToken}): token 0 is null, the token of page k+1 is k;
\* the last page carries no nextPageToken (0)
DriveListResponse(listing, pageToken) ==
  LET k == pageToken + 1
  IN [files |-> PageEntries(listing, k),
      nextPageToken |-> IF k < NumPages(listing) THEN k ELSE 0]

\* dbx.filesListFolder / filesListFolderContinue({cursor}): every response carries
\* a cursor, has_more tells whether a further page exists
DropboxListResponse(listing, cursor) ==
  LET k == cursor + 1
  IN [entries |-> IF k <= NumPages(listing) THEN PageEntries(listing, k) ELSE <<>>,
      has_more |-> k < NumPages(listing),
      cursor |-> k]

----------------------------------------------------------------------------
(* DriveScanner: enumeration of one page and folder-path resolution *)

\* the value undefined: no string of the model equals it
Undefined == <<"undefined">>

\* object.size: undefined when the object has no such property
sizeOf(object) == IF "size" \in DOMAIN object THEN object.size ELSE Undefined

\* conversion of a Dropbox entry to the common record (dropbox-scanner.js 39-46)
dropboxRecord(entry) ==
  [id |-> entry.id, name |-> entry.name, path |-> entry.path_display,
   type |-> entry.tag, size |-> sizeOf(entry)]

\* the records of a page of entries, in order
dropboxRecords(entries) == [i \in 1..Len(entries) |-> dropboxRecord(entries[i])]

\* this.analyzeFileName(file) for the records the remotes hold: the classifier is
\* a pure function of the record, evaluated once per record
risksOf ==
  [file \in DrivePool \cup {dropboxRecord(e) : e \in DropboxPool} |->
     analyzeFileName(file)]

\* getFolderPath(fileId, parentIds): names of the ancestors of the primary parent,
\* one metadata request per ancestor; a failed request gives '/' at its level
RECURSIVE getFolderPath(_, _)
getFolderPath(parentIds, down) ==
  IF parentIds = <<>> THEN <<"/">>
  ELSE IF parentIds[1] \notin DOMAIN DriveMetadata \/ parentIds[1] \in down
  THEN <<"/">>
  ELSE LET folder == DriveMetadata[parentIds[1]]
       IN IF folder.parents # <<>>
          THEN getFolderPath(folder.parents, down) \o folder.name \o <<"/">>
          ELSE folder.name \o <<"/">>

\* the metadata requests getFolderPath issues for parentIds: how many are sent
\* and how many of them fail
RECURSIVE folderLookups(_, _)
folderLookups(parentIds, down) ==
  IF parentIds = <<>> THEN [sent |-> 0, failed |-> 0]
  ELSE IF parentIds[1] \notin DOMAIN DriveMetadata \/ parentIds[1] \in down
  THEN [sent |-> 1, failed |-> 1]
  ELSE LET folder == DriveMetadata[parentIds[1]]
           above == IF folder.parents # <<>> THEN folderLookups(folder.parents, down)
                    ELSE [sent |-> 0, failed |-> 0]
       IN [sent |-> 1 + above.sent, failed |-> above.failed]

\* the metadata requests of the for loop over one page: getFolderPath is called
\* for the records that have risks
RECURSIVE pageLookups(_, _)
pageLookups(files, down) ==
  IF files = <<>> THEN [sent |-> 0, failed |-> 0]
  ELSE LET file == Head(files)
           rest == pageLookups(Tail(files), down)
           mine == IF Len(risksOf[file]) > 0 THEN folderLookups(file.parents, down)
                   ELSE [sent |-> 0, failed |-> 0]
       IN [sent |-> mine.sent + rest.sent, failed |-> mine.failed + rest.failed]

\* the folders whose metadata request fails in getFolderPath for parentIds
RECURSIVE failedLookups(_, _)
failedLookups(parentIds, down) ==
  IF parentIds = <<>> THEN {}
  ELSE IF parentIds[1] \notin DOMAIN DriveMetadata \/ parentIds[1] \in down
  THEN {parentIds[1]}
  ELSE LET folder == DriveMetadata[parentIds[1]]
       IN IF folder.parents # <<>> THEN failedLookups(folder.parents, down) ELSE {}

\* the folders whose metadata request fails while one page is processed
pageOutage(files, down) ==
  UNION { failedLookups(files[i].parents, down) :
          i \in { k \in DOMAIN files : Len(risksOf[files[k]]) > 0 } }

\* faulty variant: a record whose folder path could not be resolved is not pushed
RECURSIVE driveFindingsSkipFailed(_, _)
driveFindingsSkipFailed(files, down) ==
  IF files = <<>> THEN <<>>
  ELSE LET file == Head(files)
           risks == risksOf[file]
       IN (IF Len(risks) > 0 /\ folderLookups(file.parents, down).failed = 0
           THEN << [file |-> file, risks |-> risks,
                    folderPath |-> getFolderPath(file.parents, down)] >>
           ELSE <<>>) \o driveFindingsSkipFailed(Tail(files), down)

\* the for loop of DriveScanner.listFiles over one page: the findings it pushes
RECURSIVE driveFindings(_, _)
driveFindings(files, down) ==
  IF files = <<>> THEN <<>>
  ELSE LET file == Head(files)
           risks == risksOf[file]
       IN (IF Len(risks) > 0
           THEN << [file |-> file, risks |-> risks,
                    folderPath |-> getFolderPath(file.parents, down)] >>
           ELSE <<>>) \o driveFindings(Tail(files), down)

----------------------------------------------------------------------------
(* DropboxScanner: enumeration of one page *)

\* getDropboxFolderPath(fullPath): the path without its last piece, or '/'
getDropboxFolderPath(fullPath) ==
  LET parts == Split(fullPath)
      joined == Join(SubSeq(parts, 1, Len(parts) - 1))
  IN IF joined = <<>> THEN <<"/">> ELSE joined

\* the for loop of DropboxScanner.listFiles over one page: the findings it pushes
RECURSIVE dropboxFindings(_)
dropboxFindings(files) ==
  IF files = <<>> THEN <<>>
  ELSE LET file == Head(files)
           risks == IF file.type = "file" THEN risksOf[file] ELSE <<>>
       IN (IF Len(risks) > 0
           THEN << [file |-> file, risks |-> risks,
                    folderPath |-> getDropboxFolderPath(file.path)] >>
           ELSE <<>>) \o dropboxFindings(Tail(files))

----------------------------------------------------------------------------
(* Tree building *)

\* children[name] = node on a plain object
Put(children, name, node) == (name :> node) @@ children

\* a node of folderCache; in a children mapping a folder is held by reference,
\* written here as the folder's id
DriveFolderNode(folder) ==
  [name |-> folder.name, type |-> "folder", children |-> <<>>, id |-> folder.id,
   parents |-> folder.parents]

DriveFolderRef(folder) == [type |-> "folder", ref |-> folder.id]

DriveFileNode(file) ==
  [name |-> file.name, type |-> "file", id |-> file.id, mimeType |-> file.mimeType,
   size |-> sizeOf(file)]

\* first loop of DriveScanner.buildFileTree: folderCache.set per folder record
RECURSIVE cacheFolders(_, _)
cacheFolders(folders, cache) ==
  IF folders = <<>> THEN cache
  ELSE cacheFolders(Tail(folders),
                    Put(cache, Head(folders).id, DriveFolderNode(Head(folders))))

\* attach one node: to the root when the record has no parent or the parent is
\* 'root', to the cached parent folder when it is known, nowhere otherwise
driveAttach(tree, record, node) ==
  IF Len(record.parents) > 0
  THEN LET parentId == record.parents[1]
       IN IF parentId = <<"r","o","o","t">> \/ parentId = <<>>
          THEN [tree EXCEPT !.root.children = Put(@, record.name, node)]
          ELSE IF parentId \in DOMAIN tree.cache
          THEN [tree EXCEPT !.cache[parentId].children = Put(@, record.name, node)]
          ELSE tree
  ELSE [tree EXCEPT !.root.children = Put(@, record.name, node)]

\* second and third loop: folders, then files, each in enumeration order
RECURSIVE driveAttachAll(_, _)
driveAttachAll(tree, records) ==
  IF records = <<>> THEN tree
  ELSE LET r == Head(records)
       IN driveAttachAll(
            driveAttach(tree, r,
              IF r.mimeType = FolderMime THEN DriveFolderRef(r) ELSE DriveFileNode(r)),
            Tail(records))

driveBuildFileTree(root, cache, files) ==
  LET folders == SelectSeq(files, LAMBDA f : f.mimeType = FolderMime)
      plain == SelectSeq(files, LAMBDA f : f.mimeType # FolderMime)
  IN driveAttachAll([root |-> root, cache |-> cacheFolders(folders, cache)],
                    folders \o plain)

\* the tree as the object graph below a node: references followed into folderCache
RECURSIVE driveResolve(_, _)
driveResolve(node, cache) ==
  IF node.type = "file" THEN node
  ELSE LET folder == IF "ref" \in DOMAIN node THEN cache[node.ref] ELSE node
       IN [folder EXCEPT !.children =
             [n \in DOMAIN folder.children |-> driveResolve(folder.children[n], cache)]]

TypeError == [type |-> "TypeError"]

\* the inner loop of DropboxScanner.buildFileTree from segment i on, currentNode
\* being node: the node after the loop, or TypeError when currentNode.children is
\* read on a value that has none (a file node, an inherited property)
RECURSIVE dropboxWalk(_, _, _, _)
dropboxWalk(node, parts, i, file) ==
  IF i > Len(parts) THEN node
  ELSE IF "children" \notin DOMAIN node THEN TypeError
  ELSE
    LET part == parts[i]
        isLast == i = Len(parts)
        own == part \in DOMAIN node.children
        inherited == ~own /\ part \in ObjectPrototypeKeys
        fresh == IF isLast /\ file.type = "file"
                 THEN [name |-> part, type |-> "file", id |-> file.id,
                       size |-> file.size]
                 ELSE [name |-> part, type |-> "folder", children |-> <<>>,
                       id |-> IF file.id # <<>> THEN file.id
                              ELSE <<"f","o","l","d","e","r","-">> \o part,
                       path |-> Join(SubSeq(parts, 1, i))]
        created == IF own \/ inherited THEN node
                   ELSE [node EXCEPT !.children = Put(@, part, fresh)]
    IN IF isLast /\ file.type # "folder" THEN created
       ELSE IF inherited THEN (IF isLast THEN created ELSE TypeError)
       ELSE LET sub == dropboxWalk(created.children[part], parts, i + 1, file)
            IN IF sub.type = "TypeError" THEN TypeError
               ELSE [created EXCEPT !.children[part] = sub]

\* the outer loop: every record in enumeration order
RECURSIVE dropboxBuildFileTree(_, _)
dropboxBuildFileTree(root, files) ==
  IF files = <<>> THEN root
  ELSE LET next == dropboxWalk(root, NonEmptyParts(Split(Head(files).path)), 1,
                               Head(files))
       IN IF next.type = "TypeError" THEN TypeError
          ELSE dropboxBuildFileTree(next, Tail(files))

----------------------------------------------------------------------------
(* Severity ordering *)

severityOrder(severity) ==
  CASE severity = "HIGH" -> 3
    [] severity = "MEDIUM" -> 2
    [] severity = "LOW" -> 1
    [] OTHER -> 0

\* Math.max(...risks.map(r => severityOrder[r.severity] || 0)) of a non-empty list
maxSeverity(finding) ==
  CHOOSE m \in {severityOrder(finding.risks[i].severity) : i \in DOMAIN finding.risks} :
    \A i \in DOMAIN finding.risks : severityOrder(finding.risks[i].severity) <= m

\* faulty variant: the comparator with its operands exchanged (ascending severity)
compareFindingsAscending(a, b) == maxSeverity(a) - maxSeverity(b)

\* the comparator handed to sort
compareFindings(a, b) == maxSeverity(b) - maxSeverity(a)

\* Array.prototype.sort is stable: an element goes before the first element the
\* comparator orders strictly after it
RECURSIVE insertSorted(_, _)
insertSorted(sorted, x) ==
  IF sorted = <<>> THEN <<x>>
  ELSE IF compareFindings(Head(sorted), x) > 0 THEN <<x>> \o sorted
  ELSE <<Head(sorted)>> \o insertSorted(Tail(sorted), x)

RECURSIVE sortFindings(_)
sortFindings(findings) ==
  IF findings = <<>> THEN <<>>
  ELSE insertSorted(sortFindings(SubSeq(findings, 1, Len(findings) - 1)),
                    findings[Len(findings)])

----------------------------------------------------------------------------
(* The scan command *)

VARIABLES
  pc,                 \* where the scan action stands
  options,            \* provider, useCache (--use-cache), cache (FALSE: --no-cache)
  remote,             \* the listing the provider's account holds
  cacheFiles,         \* config/<provider>-scan-cache.json, per provider
  vulnerableFiles, totalFilesScanned, totalFilesFetched, allFiles,
  fileTree, folderCache,          \* the scanner object's fields
  pageToken,          \* continuation handed to the next listFiles call (0: none)
  scanResults,        \* the scan action's local variable
  reported,           \* what reporter.generateReport was called with
  requests,           \* page requests issued so far
  cacheAtStart,       \* cacheFiles when the action started
  fetchFailed,        \* a page request has failed
  discovered,         \* the findings in the order of enumeration, before the sort
  run,                \* number of the invocation of the command
  argv,               \* the options as given on the command line
  accounts,           \* per provider, the listing its account holds once known
  outages,            \* per page processed, the folders whose lookup failed in it
  lookups,            \* folder-metadata requests of this invocation: sent, failed
  authenticated,      \* the authentication of this invocation has succeeded
  cacheWrite,         \* the cache write of this invocation: none, ok, failed
  written,            \* per cache file, the last write of this session
  previous,           \* the last live scan of an earlier invocation
  events,             \* what the scan has done so far, in order
  tokensFile,         \* config/tokens.json
  tokenCall,          \* the last call of the token manager and what it found
  metadata,           \* the parent metadata drive.files.get answers with
  resolving           \* the getFolderPath call in progress

history == <<run, argv, accounts, outages, lookups, authenticated, cacheWrite,
             written, previous>>

scanVars == <<pc, options, remote, cacheFiles, vulnerableFiles, totalFilesScanned,
              totalFilesFetched, allFiles, fileTree, folderCache, pageToken,
              scanResults, reported, requests, cacheAtStart, fetchFailed,
              discovered, run, argv, accounts, outages, lookups, authenticated,
              cacheWrite, written, previous, events>>

tokenVars == <<tokensFile, tokenCall>>

resolveVars == <<metadata, resolving>>

vars == <<scanVars, tokenVars, resolveVars>>

scannerVars == <<vulnerableFiles, totalFilesScanned, totalFilesFetched, allFiles,
                 fileTree, folderCache>>

None == [kind |-> "none"]

\* contents a cache file may have before the run
Missing == [kind |-> "missing"]
Corrupt == [kind |-> "corrupt"]
Json(value) == [kind |-> "json", value |-> value]

\* a snapshot left by an earlier scan
OldSnapshot(provider) ==
  Json([vulnerableFiles |-> <<>>,
        fileTree |-> [name |-> <<"o","l","d">>, type |-> "folder",
                      children |-> <<>>, id |-> <<"r","o","o","t">>],
        summary |-> [totalFiles |-> 0, vulnerableFiles |-> 0, scanDate |-> 0,
                     provider |-> provider]])

CacheStates ==
  { [p \in Providers |-> Missing],
    ("google" :> OldSnapshot("DriveScanner")) @@ ("dropbox" :> Corrupt),
    ("google" :> Json([note |-> "no summary"])) @@
      ("dropbox" :> OldSnapshot("DropboxScanner")) }

\* JSON.stringify of an object that may have a size: a property whose value is
\* undefined is left out
omitUndefined(object) ==
  [k \in {k \in DOMAIN object : k # "size" \/ object.size # Undefined} |-> object[k]]

\* faulty variant: the children of a folder are written as an empty object
stringifyNodeShallow(node) ==
  IF node.type = "file" THEN omitUndefined(node)
  ELSE [node EXCEPT !.children = <<>>]

\* JSON.stringify of a tree node, children included
RECURSIVE stringifyNode(_)
stringifyNode(node) ==
  IF node.type = "file" THEN omitUndefined(node)
  ELSE [node EXCEPT !.children = [n \in DOMAIN @ |-> stringifyNode(@[n])]]

\* JSON.stringify(scanResults, null, 2): the document written to the cache file
JSONstringify(result) ==
  [vulnerableFiles |->
     [i \in DOMAIN result.vulnerableFiles |->
        [result.vulnerableFiles[i] EXCEPT !.file = omitUndefined(@)]],
   fileTree |-> stringifyNode(result.fileTree),
   summary |-> result.summary]

\* JSON.parse(cacheContent) of a file that holds a document
JSONparse(content) == content.value

\* faulty variant: one cache file for every provider
getCachePathShared(provider) == "google"

\* getCachePath(provider): one file per provider name
getCachePath(provider) == provider

\* faulty variant: a scanner that starts from the findings of the provider's
\* snapshot instead of an empty list
BaseScannerSeeded ==
  [vulnerableFiles |->
     LET content == cacheFiles[getCachePath(argv.provider)]
     IN IF content.kind = "json" /\ "vulnerableFiles" \in DOMAIN content.value
        THEN content.value.vulnerableFiles ELSE <<>>,
   totalFilesScanned |-> 0, totalFilesFetched |-> 0,
   allFiles |-> <<>>, folderCache |-> <<>>]

\* BaseScanner constructor (base-scanner.js 4-11)
BaseScanner ==
  [vulnerableFiles |-> <<>>, totalFilesScanned |-> 0, totalFilesFetched |-> 0,
   allFiles |-> <<>>, folderCache |-> <<>>]

\* the fileTree the subclass constructor assigns
newFileTree(provider) ==
  [name |-> IF provider = "dropbox" THEN <<"D","r","o","p","b","o","x">>
            ELSE <<"M","y"," ","D","r","i","v","e">>,
   type |-> "folder", children |-> <<>>, id |-> <<"r","o","o","t">>]

\* the command lines: --provider, --use-cache, --no-cache (cache = FALSE)
CommandLines == [provider : Providers, useCache : BOOLEAN, cache : BOOLEAN]

\* the state of a process that has just parsed its command line
ProcessStart ==
  /\ pc = "start"
  /\ options = argv
  /\ remote = <<>>
  /\ cacheAtStart = cacheFiles
  /\ vulnerableFiles = BaseScanner.vulnerableFiles
  /\ totalFilesScanned = BaseScanner.totalFilesScanned
  /\ totalFilesFetched = BaseScanner.totalFilesFetched
  /\ allFiles = BaseScanner.allFiles
  /\ fileTree = newFileTree("base")
  /\ folderCache = BaseScanner.folderCache
  /\ pageToken = 0
  /\ scanResults = None
  /\ reported = None
  /\ requests = 0
  /\ fetchFailed = FALSE
  /\ discovered = <<>>
  /\ outages = <<>>
  /\ lookups = [sent |-> 0, failed |-> 0]
  /\ authenticated = FALSE
  /\ cacheWrite = "none"
  /\ events = <<>>

\* the token manager and the path resolution taken alone are not in use
NoTokenCall ==
  /\ tokensFile = Missing
  /\ tokenCall = None

NoResolution ==
  /\ metadata = <<>>
  /\ resolving = None

\* one invocation; the account is whatever the provider holds
Init ==
  /\ run = 1
  /\ argv \in CommandLines
  /\ cacheFiles \in CacheStates
  /\ accounts = [p \in Providers |-> <<>>]
  /\ written = [p \in Providers |-> <<>>]
  /\ previous = <<>>
  /\ ProcessStart
  /\ NoTokenCall
  /\ NoResolution

\* faulty variant: whatever parses is taken for a snapshot
cacheHitAnyJson(value) == TRUE

\* faulty variant: a snapshot of an earlier session is taken for expired
cacheHitUnlessOld(value) ==
  "summary" \in DOMAIN value /\ value.summary.scanDate > 0

\* reading scanResults.summary.scanDate does not throw (index.js 247-249)
cacheHit(value) == "summary" \in DOMAIN value

\* index.js 239-258: read and parse the provider's cache file
LoadCache ==
  /\ UNCHANGED <<events, tokenVars, resolveVars>>
  /\ pc = "start"
  /\ options.useCache
  /\ LET content == cacheFiles[getCachePath(options.provider)]
     IN IF content.kind = "json"
        THEN \* JSON.parse succeeded and scanResults is assigned; reading
             \* summary.scanDate throws when there is no summary
             /\ scanResults' = JSONparse(content)
             /\ IF cacheHit(JSONparse(content))
                THEN /\ pc' = "report"
                     /\ UNCHANGED options
                ELSE /\ pc' = "auth"
                     /\ options' = [options EXCEPT !.useCache = FALSE]
        ELSE /\ pc' = "auth"
             /\ options' = [options EXCEPT !.useCache = FALSE]
             /\ UNCHANGED scanResults
  /\ UNCHANGED <<remote, cacheFiles, scannerVars, pageToken, reported, requests,
                 cacheAtStart, fetchFailed, discovered, history>>

SkipCache ==
  /\ UNCHANGED <<events, tokenVars, resolveVars>>
  /\ pc = "start"
  /\ ~options.useCache
  /\ pc' = "auth"
  /\ UNCHANGED <<options, remote, cacheFiles, scannerVars, pageToken, scanResults,
                 reported, requests, cacheAtStart, fetchFailed, discovered, history>>

\* index.js 261-315: authentication, scanner construction, confirmation prompt;
\* outcome "ok", "error" (authentication throws) or "cancelled" (process.exit(0)
\* at the prompt that follows a new authorization). The account holds the
\* listing it held at an earlier invocation of the session, when there was one.
Authenticate ==
  /\ UNCHANGED <<events, tokenVars, resolveVars>>
  /\ pc = "auth"
  /\ \E outcome \in {"ok", "error", "cancelled"} :
       /\ authenticated' = (outcome # "error")
       /\ IF outcome = "ok"
          THEN /\ \E listing \in (IF accounts[options.provider] = <<>>
                                   THEN Listings(options.provider)
                                   ELSE {accounts[options.provider][1]}) :
                    /\ remote' = listing
                    /\ accounts' = [accounts EXCEPT ![options.provider] = <<listing>>]
               /\ fileTree' = newFileTree(options.provider)
               /\ pc' = "listFiles"
          ELSE /\ pc' = IF outcome = "error" THEN "exit1" ELSE "exit0"
               /\ UNCHANGED <<remote, fileTree, accounts>>
  /\ vulnerableFiles' = BaseScanner.vulnerableFiles
  /\ totalFilesScanned' = BaseScanner.totalFilesScanned
  /\ totalFilesFetched' = BaseScanner.totalFilesFetched
  /\ allFiles' = BaseScanner.allFiles
  /\ folderCache' = BaseScanner.folderCache
  /\ UNCHANGED <<options, cacheFiles, pageToken, scanResults,
                 reported, requests, cacheAtStart, fetchFailed, discovered,
                 run, argv, outages, lookups, cacheWrite, written, previous>>

\* the entries of the log of a scan: a request sent to the remote, its answer
\* (a result or a rejection), a record pushed and classified
ListRequest(page) == [op |-> "request", what |-> "list", page |-> page]

ListResponse(page) == [op |-> "response", what |-> "list", page |-> page]

GetRequest(folderId) == [op |-> "request", what |-> "get", id |-> folderId]

GetResponse(folderId) == [op |-> "response", what |-> "get", id |-> folderId]

RecordEvent(file) == [op |-> "record", id |-> file.id]

\* await of a page request: nothing else happens before its answer
ListEvents(page) == <<ListRequest(page), ListResponse(page)>>

\* the metadata requests of getFolderPath for parentIds: each is awaited, and the
\* request for the next ancestor is sent from inside the try of the one before
RECURSIVE lookupEvents(_, _)
lookupEvents(parentIds, down) ==
  IF parentIds = <<>> THEN <<>>
  ELSE IF parentIds[1] \notin DOMAIN DriveMetadata \/ parentIds[1] \in down
  THEN <<GetRequest(parentIds[1]), GetResponse(parentIds[1])>>
  ELSE LET folder == DriveMetadata[parentIds[1]]
       IN <<GetRequest(parentIds[1]), GetResponse(parentIds[1])>> \o
          (IF folder.parents # <<>> THEN lookupEvents(folder.parents, down) ELSE <<>>)

\* faulty variant: getFolderPath is called without await, the answers to its
\* requests arrive after listFiles has gone on
RECURSIVE pageEventsNotAwaited(_, _)
pageEventsNotAwaited(files, down) ==
  IF files = <<>> THEN <<>>
  ELSE LET file == Head(files)
       IN <<RecordEvent(file)>> \o
          (IF Len(risksOf[file]) > 0 /\ file.parents # <<>>
           THEN <<GetRequest(file.parents[1])>> ELSE <<>>) \o
          pageEventsNotAwaited(Tail(files), down)

\* the for loop of DriveScanner.listFiles over one page: each record is pushed
\* and classified, and the folder path of a record with risks is awaited
RECURSIVE pageEvents(_, _)
pageEvents(files, down) ==
  IF files = <<>> THEN <<>>
  ELSE LET file == Head(files)
       IN <<RecordEvent(file)>> \o
          (IF Len(risksOf[file]) > 0 THEN lookupEvents(file.parents, down) ELSE <<>>) \o
          pageEvents(Tail(files), down)

\* faulty variant: the error of a page request is swallowed and the scan goes on
onListErrorSwallowed == "buildFileTree"

\* the request of a listFiles call throws: scanAllFiles rethrows, the action's
\* catch prints the error and exits with status 1
onListError == "exit1"

\* DriveScanner.listFiles: whether a further call follows this response
driveHasNext(response) == response.nextPageToken # 0

\* one call of DriveScanner.listFiles (scanner.js 11-56)
DriveListFiles ==
  /\ UNCHANGED <<tokenVars, resolveVars>>
  /\ pc = "listFiles"
  /\ options.provider # "dropbox"
  /\ requests' = requests + 1
  /\ \/ /\ fetchFailed' = TRUE
        /\ pc' = onListError
        /\ events' = events \o ListEvents(requests + 1)
        /\ UNCHANGED <<scannerVars, pageToken, outages, lookups>>
     \/ \E down \in LookupOutages :
          LET response == DriveListResponse(remote, pageToken)
              files == response.files
              sent == pageLookups(files, down)
          IN /\ events' = events \o ListEvents(requests + 1) \o
                            pageEvents(files, down)
             /\ outages' = Append(outages, pageOutage(files, down))
             /\ lookups' = [sent |-> lookups.sent + sent.sent,
                            failed |-> lookups.failed + sent.failed]
             /\ totalFilesFetched' = totalFilesFetched + Len(files)
             /\ totalFilesScanned' = totalFilesScanned + Len(files)
             /\ allFiles' = allFiles \o files
             /\ vulnerableFiles' = vulnerableFiles \o driveFindings(files, down)
             /\ IF driveHasNext(response)
                THEN pageToken' = response.nextPageToken /\ pc' = "listFiles"
                ELSE pageToken' = 0 /\ pc' = "buildFileTree"
             /\ UNCHANGED <<fileTree, folderCache, fetchFailed>>
  /\ UNCHANGED <<options, remote, cacheFiles, scanResults, reported, cacheAtStart,
                 discovered, run, argv, accounts, authenticated, cacheWrite,
                 written, previous>>

\* faulty variant: the cursor, which every response carries, taken for the continuation
dropboxHasNextOnCursor(response) == response.cursor # 0

\* DropboxScanner.listFiles: whether a further call follows this response
dropboxHasNext(response) == response.has_more

\* one call of DropboxScanner.listFiles (dropbox-scanner.js 10-80)
DropboxListFiles ==
  /\ UNCHANGED <<tokenVars, resolveVars>>
  /\ pc = "listFiles"
  /\ options.provider = "dropbox"
  /\ requests' = requests + 1
  /\ \/ /\ fetchFailed' = TRUE
        /\ pc' = onListError
        /\ events' = events \o ListEvents(requests + 1)
        /\ UNCHANGED <<scannerVars, pageToken, outages>>
     \/ LET response == DropboxListResponse(remote, pageToken)
            files == dropboxRecords(response.entries)
        IN /\ totalFilesFetched' = totalFilesFetched + Len(files)
           /\ totalFilesScanned' = totalFilesScanned + Len(files)
           /\ allFiles' = allFiles \o files
           /\ vulnerableFiles' = vulnerableFiles \o dropboxFindings(files)
           /\ IF dropboxHasNext(response)
              THEN pageToken' = response.cursor /\ pc' = "listFiles"
              ELSE pageToken' = 0 /\ pc' = "buildFileTree"
           /\ events' = events \o ListEvents(requests + 1) \o
                          [i \in DOMAIN files |-> RecordEvent(files[i])]
           /\ outages' = Append(outages, {})
           /\ UNCHANGED <<fileTree, folderCache, fetchFailed>>
  /\ UNCHANGED <<options, remote, cacheFiles, scanResults, reported, cacheAtStart,
                 discovered, run, argv, accounts, lookups, authenticated, cacheWrite,
                 written, previous>>

\* faulty variant: the error of buildFileTree is swallowed and the scan goes on
onBuildErrorSwallowed == "sort"

\* buildFileTree throws: scanAllFiles rethrows, the action's catch exits
onBuildError == "exit1"

\* await this.buildFileTree() in scanAllFiles; a TypeError ends the scan
BuildFileTree ==
  /\ UNCHANGED <<tokenVars, resolveVars>>
  /\ pc = "buildFileTree"
  /\ events' = Append(events, [op |-> "buildFileTree"])
  /\ IF options.provider = "dropbox"
     THEN LET built == dropboxBuildFileTree(fileTree, allFiles)
          IN IF built.type = "TypeError"
             THEN pc' = onBuildError /\ UNCHANGED <<fileTree, folderCache>>
             ELSE pc' = "sort" /\ fileTree' = built /\ UNCHANGED folderCache
     ELSE LET built == driveBuildFileTree(fileTree, folderCache, allFiles)
          IN /\ fileTree' = built.root
             /\ folderCache' = built.cache
             /\ pc' = "sort"
  /\ UNCHANGED <<options, remote, cacheFiles, vulnerableFiles, totalFilesScanned,
                 totalFilesFetched, allFiles, pageToken, scanResults, reported,
                 requests, cacheAtStart, fetchFailed, discovered, history>>

\* faulty variant: the summary counts the findings as the files scanned
getScanResultsCountingFindings(findings, tree, cache, scanned, provider) ==
  [vulnerableFiles |-> findings,
   fileTree |-> IF provider = "dropbox" THEN tree ELSE driveResolve(tree, cache),
   summary |-> [totalFiles |-> Len(findings),
                vulnerableFiles |-> Len(findings),
                scanDate |-> run,
                provider |-> IF provider = "dropbox" THEN "DropboxScanner"
                             ELSE "DriveScanner"]]

\* getScanResults(): the fields of the scanner, the tree as the object graph;
\* the clock of the model is the number of the invocation
getScanResults(findings, tree, cache, scanned, provider) ==
  [vulnerableFiles |-> findings,
   fileTree |-> IF provider = "dropbox" THEN tree ELSE driveResolve(tree, cache),
   summary |-> [totalFiles |-> scanned,
                vulnerableFiles |-> Len(findings),
                scanDate |-> run,
                provider |-> IF provider = "dropbox" THEN "DropboxScanner"
                             ELSE "DriveScanner"]]

\* faulty variant: --no-cache is not looked at
cacheEnabledAlways(opts) == TRUE

\* options.cache !== false (index.js 320)
cacheEnabled(opts) == opts.cache # FALSE

\* the sort and the return of scanAllFiles (base-scanner.js 253-262)
SortAndReturn ==
  /\ UNCHANGED <<tokenVars, resolveVars>>
  /\ pc = "sort"
  /\ events' = events \o <<[op |-> "sort"], [op |-> "return"]>>
  /\ discovered' = vulnerableFiles
  /\ vulnerableFiles' = sortFindings(vulnerableFiles)
  /\ scanResults' = getScanResults(vulnerableFiles', fileTree, folderCache,
                                   totalFilesScanned, options.provider)
  /\ pc' = IF cacheEnabled(options) THEN "saveCache" ELSE "report"
  /\ UNCHANGED <<options, remote, cacheFiles, totalFilesScanned, totalFilesFetched,
                 allFiles, fileTree, folderCache, pageToken, reported, requests,
                 cacheAtStart, fetchFailed, history>>

\* faulty variant: a failed cache write reaches the catch of the action
onCacheWriteErrorThrown == "exit1"

\* fs.writeFile throws: the inner catch warns and the action goes on
onCacheWriteError == "report"

\* index.js 319-333: write the cache file; a failed write is only warned about
SaveCache ==
  /\ UNCHANGED <<events, tokenVars, resolveVars>>
  /\ pc = "saveCache"
  /\ \/ /\ cacheFiles' = [cacheFiles EXCEPT ![getCachePath(options.provider)] =
                            Json(JSONstringify(scanResults))]
        /\ written' = [written EXCEPT ![getCachePath(options.provider)] =
                         <<[by |-> options.provider, result |-> scanResults]>>]
        /\ cacheWrite' = "ok"
        /\ pc' = "report"
     \/ /\ cacheWrite' = "failed"
        /\ pc' = onCacheWriteError
        /\ UNCHANGED <<cacheFiles, written>>
  /\ UNCHANGED <<options, remote, scannerVars, pageToken, scanResults, reported,
                 requests, cacheAtStart, fetchFailed, discovered, run, argv,
                 accounts, outages, lookups, authenticated, previous>>

\* index.js 336-337: hand the result to the reporter
Report ==
  /\ UNCHANGED <<events, tokenVars, resolveVars>>
  /\ pc = "report"
  /\ reported' = scanResults
  /\ pc' = "done"
  /\ UNCHANGED <<options, remote, cacheFiles, scannerVars, pageToken, scanResults,
                 requests, cacheAtStart, fetchFailed, discovered, history>>

Next ==
  \/ LoadCache
  \/ SkipCache
  \/ Authenticate
  \/ DriveListFiles
  \/ DropboxListFiles
  \/ BuildFileTree
  \/ SortAndReturn
  \/ SaveCache
  \/ Report

Spec == Init /\ [][Next]_vars

----------------------------------------------------------------------------
(* A session: the command invoked again on the same machine *)

MaxRuns == 2

DriveRecord(id) == CHOOSE f \in DrivePool : f.id = id

DropboxRecord(id) == CHOOSE e \in DropboxPool : e.id = id

\* accounts that stay as they are for the whole session
SessionAccounts ==
  { [google |-> << <<DriveRecord(<<"D","4">>), DriveRecord(<<"F","1">>),
                     DriveRecord(<<"D","1">>)>> >>,
     dropbox |-> << <<DropboxRecord(<<"i","d",":","4">>),
                      DropboxRecord(<<"i","d",":","a">>),
                      DropboxRecord(<<"i","d",":","1">>)>> >>],
    [google |-> << <<DriveRecord(<<"D","7">>), DriveRecord(<<"D","3">>),
                     DriveRecord(<<"D","6">>)>> >>,
     dropbox |-> << <<DropboxRecord(<<"i","d",":","1">>),
                      DropboxRecord(<<"i","d",":","2">>),
                      DropboxRecord(<<"i","d",":","7">>)>> >>] }

InitSession ==
  /\ run = 1
  /\ argv \in CommandLines
  /\ cacheFiles \in CacheStates
  /\ accounts \in SessionAccounts
  /\ written = [p \in Providers |-> <<>>]
  /\ previous = <<>>
  /\ ProcessStart
  /\ NoTokenCall
  /\ NoResolution

\* the process has ended and the command is invoked again: the cache files are
\* what the earlier invocations left, everything else starts anew
NextInvocation ==
  /\ UNCHANGED <<tokenVars, resolveVars>>
  /\ pc \in {"done", "exit0", "exit1"}
  /\ run < MaxRuns
  /\ run' = run + 1
  /\ argv' \in CommandLines
  /\ previous' = IF pc = "done" /\ ~options.useCache
                 THEN <<[provider |-> options.provider, outages |-> outages,
                         result |-> reported]>>
                 ELSE previous
  /\ UNCHANGED <<cacheFiles, accounts, written>>
  /\ pc' = "start"
  /\ options' = argv'
  /\ remote' = <<>>
  /\ cacheAtStart' = cacheFiles
  /\ vulnerableFiles' = BaseScanner.vulnerableFiles
  /\ totalFilesScanned' = BaseScanner.totalFilesScanned
  /\ totalFilesFetched' = BaseScanner.totalFilesFetched
  /\ allFiles' = BaseScanner.allFiles
  /\ fileTree' = newFileTree("base")
  /\ folderCache' = BaseScanner.folderCache
  /\ pageToken' = 0
  /\ scanResults' = None
  /\ reported' = None
  /\ requests' = 0
  /\ fetchFailed' = FALSE
  /\ discovered' = <<>>
  /\ outages' = <<>>
  /\ lookups' = [sent |-> 0, failed |-> 0]
  /\ authenticated' = FALSE
  /\ cacheWrite' = "none"
  /\ events' = <<>>

NextSession == Next \/ NextInvocation

SpecSession == InitSession /\ [][NextSession]_vars


----------------------------------------------------------------------------
(* The token manager: config/tokens.json, one property per provider *)

\* token responses of the providers' token endpoints, as parsed from JSON
TokenValues ==
  { [access_token |-> "at1", refresh_token |-> "rt1"],
    [access_token |-> "at2"] }

\* the documents tokens.json can hold: one property for some of the providers
TokenDocuments ==
  UNION { [keys -> TokenValues] : keys \in SUBSET Providers }

TokenFiles == {Missing, Corrupt} \cup { Json(d) : d \in TokenDocuments }

\* JSON.stringify(allTokens, null, 2): the token object of each provider, a
\* property whose value is undefined left out
stringifyTokens(allTokens) ==
  [p \in DOMAIN allTokens |->
     [k \in { j \in DOMAIN allTokens[p] : allTokens[p][j] # "undefined" } |->
        allTokens[p][k]]]

\* faulty variant: the tokens already stored are not read
existingTokensIgnored(file) == <<>>

\* the inner try of saveTokens: the parsed file, or an empty object when the file
\* is missing or does not parse
existingTokens(file) ==
  IF file.kind = "json" THEN JSONparse(file) ELSE <<>>

\* allTokens[provider] = tokens
setToken(allTokens, provider, tokens) ==
  [p \in DOMAIN allTokens \cup {provider} |->
     IF p = provider THEN tokens ELSE allTokens[p]]

\* delete allTokens[provider]
deleteToken(allTokens, provider) ==
  [p \in DOMAIN allTokens \ {provider} |-> allTokens[p]]

\* what a call leaves for the next one to look at
Call(op, provider, tokens, outcome, result) ==
  [op |-> op, provider |-> provider, tokens |-> tokens, before |-> tokensFile,
   outcome |-> outcome, result |-> result,
   after |-> IF tokenCall = None THEN None
             ELSE [op |-> tokenCall.op, provider |-> tokenCall.provider,
                   tokens |-> tokenCall.tokens, outcome |-> tokenCall.outcome]]

\* saveTokens(provider, tokens); fs.writeFile may fail
SaveTokens ==
  /\ UNCHANGED <<scanVars, resolveVars>>
  /\ \E provider \in Providers, tokens \in TokenValues :
       \/ /\ tokensFile' =
               Json(stringifyTokens(setToken(existingTokens(tokensFile),
                                             provider, tokens)))
          /\ tokenCall' = Call("saveTokens", provider, tokens, "ok", None)
       \/ /\ tokensFile' = tokensFile
          /\ tokenCall' = Call("saveTokens", provider, tokens, "error", None)

\* loadTokens(provider): the stored value when it is truthy, an error otherwise
LoadTokens ==
  /\ UNCHANGED <<scanVars, resolveVars>>
  /\ tokensFile' = tokensFile
  /\ \E provider \in Providers :
       IF tokensFile.kind = "json" /\ provider \in DOMAIN JSONparse(tokensFile)
       THEN tokenCall' = Call("loadTokens", provider, None, "ok",
                              JSONparse(tokensFile)[provider])
       ELSE tokenCall' = Call("loadTokens", provider, None, "error", None)

\* clearTokens(provider): nothing to do without a file that parses
ClearTokens ==
  /\ UNCHANGED <<scanVars, resolveVars>>
  /\ \E provider \in Providers :
       IF tokensFile.kind # "json"
       THEN /\ tokensFile' = tokensFile
            /\ tokenCall' = Call("clearTokens", provider, None, "ok", None)
       ELSE \/ /\ tokensFile' =
                    Json(stringifyTokens(deleteToken(JSONparse(tokensFile), provider)))
               /\ tokenCall' = Call("clearTokens", provider, None, "ok", None)
            \/ /\ tokensFile' = tokensFile
               /\ tokenCall' = Call("clearTokens", provider, None, "error", None)

\* the scan is not running
ScanIdle ==
  /\ run = 1
  /\ argv = [provider |-> "dropbox", useCache |-> FALSE, cache |-> TRUE]
  /\ cacheFiles = [p \in Providers |-> Missing]
  /\ accounts = [p \in Providers |-> <<>>]
  /\ written = [p \in Providers |-> <<>>]
  /\ previous = <<>>
  /\ ProcessStart

InitTokens ==
  /\ ScanIdle
  /\ NoResolution
  /\ tokensFile \in TokenFiles
  /\ tokenCall = None

NextTokens ==
  \/ SaveTokens
  \/ LoadTokens
  \/ ClearTokens

SpecTokens == InitTokens /\ [][NextTokens]_vars

----------------------------------------------------------------------------
(* getFolderPath taken alone, over any parent metadata the remote may hold *)

FolderIds == { <<"F","1">>, <<"F","2">>, <<"F","3">> }

\* an id the remote has no folder for
GoneId == <<"X","9">>

\* the parents property of a metadata response: absent, or one parent id
ParentLists == { <<>> } \cup { <<id>> : id \in FolderIds \cup {GoneId} }

\* the remote's answers to drive.files.get, fields 'name, parents'
MetadataGraphs ==
  { [id \in FolderIds |-> [name |-> id, parents |-> parent[id]]] :
      parent \in [FolderIds -> ParentLists] }

InitResolve ==
  /\ ScanIdle
  /\ NoTokenCall
  /\ metadata \in MetadataGraphs
  /\ \E parentIds \in ParentLists : resolving = [pc |-> "call", parentIds |-> parentIds]

\* scanner.js 58-61: the entry of a getFolderPath call
GetFolderPathCall ==
  /\ UNCHANGED <<scanVars, tokenVars, metadata>>
  /\ resolving # None
  /\ resolving.pc = "call"
  /\ resolving' = IF resolving.parentIds = <<>>
                  THEN [resolving EXCEPT !.pc = "returned"]
                  ELSE [resolving EXCEPT !.pc = "get"]

\* scanner.js 63-77: the awaited drive.files.get is answered; a rejection is
\* caught and ends the call, a folder with parents leads to the call for them
FilesGet ==
  /\ UNCHANGED <<scanVars, tokenVars, metadata>>
  /\ resolving # None
  /\ resolving.pc = "get"
  /\ \/ resolving' = [resolving EXCEPT !.pc = "returned"]
     \/ /\ resolving.parentIds[1] \in DOMAIN metadata
        /\ LET folder == metadata[resolving.parentIds[1]]
           IN resolving' = IF folder.parents # <<>>
                           THEN [pc |-> "call", parentIds |-> folder.parents]
                           ELSE [resolving EXCEPT !.pc = "returned"]

NextResolve ==
  \/ GetFolderPathCall
  \/ FilesGet

\* a call that can go on does go on: the event loop runs the continuation of an
\* awaited request once the request is answered
SpecResolve == InitResolve /\ [][NextResolve]_vars /\ WF_vars(NextResolve)

----------------------------------------------------------------------------
(* scanAllFiles called again on the scanner object that has already returned *)

\* the caller keeps the first result as it was returned and calls scanAllFiles
\* once more: listFiles starts from the first page, and the fields the
\* constructor set (base-scanner.js 4-11) are whatever the first call left
ScanAgain ==
  /\ UNCHANGED <<tokenVars, resolveVars>>
  /\ pc = "done"
  /\ ~options.useCache
  /\ previous = <<>>
  /\ previous' = <<[provider |-> options.provider, outages |-> outages,
                    result |-> scanResults]>>
  /\ pc' = "listFiles"
  /\ pageToken' = 0
  /\ scanResults' = None
  /\ reported' = None
  /\ requests' = 0
  /\ fetchFailed' = FALSE
  /\ discovered' = <<>>
  /\ outages' = <<>>
  /\ lookups' = [sent |-> 0, failed |-> 0]
  /\ cacheWrite' = "none"
  /\ events' = <<>>
  /\ UNCHANGED <<options, remote, cacheFiles, scannerVars, cacheAtStart, run, argv,
                 accounts, authenticated, written>>

NextRescan == Next \/ ScanAgain

SpecRescan == InitSession /\ [][NextRescan]_vars
----------------------------------------------------------------------------
(* Properties *)

\* a live scan has returned its result (the tree is built, the findings sorted)
ScanReturned ==
  /\ ~options.useCache
  /\ pc \in {"saveCache", "report", "done"}

\* the tree has been built by a live scan
TreeBuilt ==
  /\ ~options.useCache
  /\ pc \in {"sort", "saveCache", "report", "done"}

\* the records the enumeration of the whole listing yields
RemoteRecords ==
  IF options.provider = "dropbox" THEN dropboxRecords(remote) ELSE remote

\* the records of the first n pages of the listing
FirstPages(n) ==
  SubSeq(RemoteRecords, 1,
         IF n * PageSize < Len(remote) THEN n * PageSize ELSE Len(remote))

\* C1: listFiles asks for a further page exactly when the previous response
\* carried a continuation and stops at the first response without one; while it
\* runs allFiles holds the entries of the pages read so far, in page order, and
\* when it returns allFiles is the whole listing and both counters equal the
\* number of entries returned.
C1_PaginationComplete ==
  /\ (pc = "listFiles" /\ ~fetchFailed) =>
       /\ requests < NumPages(remote)
       /\ pageToken = requests
       /\ allFiles = FirstPages(requests)
  /\ (pc = "buildFileTree") =>
       /\ requests = NumPages(remote)
       /\ allFiles = RemoteRecords
       /\ totalFilesFetched = Len(remote)
       /\ totalFilesScanned = Len(remote)

\* C1 witness: listFiles has returned after more than one page
C1_Witness ==
  /\ pc = "buildFileTree"
  /\ requests >= 2
  /\ Len(allFiles) > PageSize

\* C2: once a page request has failed, on the first page or a later one, the run
\* has left through the error exit: scanAllFiles returned no ScanResult, the
\* reporter was not called and every cache file is as it was before the run.
C2_FetchFailureAborts ==
  fetchFailed =>
    /\ pc = "exit1"
    /\ "summary" \notin DOMAIN scanResults
    /\ reported = None
    /\ cacheFiles = cacheAtStart

\* C2 witness: a later page failed after an earlier page had been processed, with
\* caching enabled and a snapshot of an earlier scan in the provider's cache file
C2_Witness ==
  /\ fetchFailed
  /\ requests >= 2
  /\ Len(vulnerableFiles) > 0
  /\ options.cache
  /\ cacheFiles[getCachePath(options.provider)].kind = "json"

\* the highest severity among a finding's risks, read off the risk list
Rank(finding) ==
  IF \E i \in DOMAIN finding.risks : finding.risks[i].severity = "HIGH" THEN 3
  ELSE IF \E i \in DOMAIN finding.risks : finding.risks[i].severity = "MEDIUM" THEN 2
  ELSE 1

\* position of a finding in the order of discovery
DiscoveryIndex(finding) == CHOOSE i \in DOMAIN discovered : discovered[i] = finding

\* C3: the findings returned by scanAllFiles are in descending order of maximum
\* severity, and findings of equal maximum severity are in the order in which
\* the enumeration discovered them.
C3_SortedBySeverityStable ==
  ScanReturned =>
    LET f == scanResults.vulnerableFiles
    IN /\ Len(f) = Len(discovered)
       /\ \A i \in DOMAIN f : \E j \in DOMAIN discovered : discovered[j] = f[i]
       /\ \A i, j \in DOMAIN f :
            i < j =>
              /\ Rank(f[i]) >= Rank(f[j])
              /\ Rank(f[i]) = Rank(f[j]) =>
                   DiscoveryIndex(f[i]) < DiscoveryIndex(f[j])

\* C3 witness: the sort moved a finding in front of two findings of equal severity
C3_Witness ==
  /\ ScanReturned
  /\ scanResults.vulnerableFiles # discovered
  /\ \E i, j \in DOMAIN scanResults.vulnerableFiles :
       /\ i < j
       /\ Rank(scanResults.vulnerableFiles[i]) = Rank(scanResults.vulnerableFiles[j])
       /\ Rank(scanResults.vulnerableFiles[1]) > Rank(scanResults.vulnerableFiles[i])

\* whether a record is a folder (Drive: by mime type; Dropbox: by tag)
IsFolder(record) ==
  IF "mimeType" \in DOMAIN record THEN record.mimeType = FolderMime
  ELSE record.type = "folder"

\* C4: a folder record never produces a finding, for either provider, even when
\* its name matches a rule.
C4_FolderNeverFinding ==
  \A i \in DOMAIN vulnerableFiles : ~IsFolder(vulnerableFiles[i].file)

\* the rules with at least one pattern matching the name, as catalog positions
MatchingRules(name) ==
  SelectSeq([k \in 1..Len(riskPatterns) |-> k],
            LAMBDA k : \E p \in DOMAIN riskPatterns[k].patterns :
                         RegExpTest(riskPatterns[k].patterns[p], name))

matchingRulesOf == [name \in {f.name : f \in DOMAIN risksOf} |-> MatchingRules(name)]

\* a risk list is exactly the entries of the rules matching the name, in order
RisksAreMatches(risks, name) ==
  LET rules == matchingRulesOf[name]
  IN /\ Len(risks) = Len(rules)
     /\ \A j \in DOMAIN risks :
          /\ risks[j].type = riskPatterns[rules[j]].type
          /\ risks[j].severity = riskPatterns[rules[j]].severity
          /\ risks[j].fileName = name

TreeValue ==
  IF options.provider = "dropbox" THEN fileTree
  ELSE driveResolve(fileTree, folderCache)

\* every node below a node, with the child names leading to it from that node
RECURSIVE TreeEntries(_, _)
TreeEntries(node, prefix) ==
  IF node.type = "file" THEN {}
  ELSE UNION { { [at |-> Append(prefix, n), type |-> node.children[n].type,
                  id |-> node.children[n].id, name |-> node.children[n].name] }
               \cup TreeEntries(node.children[n], Append(prefix, n)) :
               n \in DOMAIN node.children }

\* ids of the folder records fetched in this scan
FetchedFolderIds ==
  { allFiles[i].id : i \in { k \in DOMAIN allFiles : IsFolder(allFiles[k]) } }

\* C6: in the parent-graph tree every record whose primary parent is not the id
\* of a fetched folder record hangs in the root's children under its name.
C6_UnresolvedParentAtRoot ==
  (TreeBuilt /\ options.provider = "google") =>
    \A i \in DOMAIN allFiles :
      LET r == allFiles[i]
      IN (r.parents # <<>> /\ r.parents[1] \notin FetchedFolderIds) =>
           /\ r.name \in DOMAIN TreeValue.children
           /\ \E k \in DOMAIN allFiles :
                /\ allFiles[k].name = r.name
                /\ TreeValue.children[r.name].id = allFiles[k].id

RecordType(record) == IF IsFolder(record) THEN "folder" ELSE "file"

\* a tree node stands for a record: same id, name and kind (flat-path: at the
\* record's path)
StandsFor(entry, record) ==
  /\ entry.id = record.id
  /\ entry.name = record.name
  /\ entry.type = RecordType(record)
  /\ "path" \in DOMAIN record => entry.at = NonEmptyParts(Split(record.path))

IsProperPrefix(s, t) == Len(s) < Len(t) /\ SubSeq(t, 1, Len(s)) = s

\* C7: after buildFileTree every enumerated record has a node reachable from the
\* root, every node below the root stands for exactly one record or, flat-path,
\* is an intermediate segment of a record's path, and as many records are in the
\* tree as were enumerated.
C7_TreeHoldsEveryRecord ==
  TreeBuilt =>
    LET entries == TreeEntries(TreeValue, <<>>)
    IN /\ \A i \in DOMAIN allFiles : \E e \in entries : StandsFor(e, allFiles[i])
       /\ \A e \in entries :
            \/ Cardinality({i \in DOMAIN allFiles : StandsFor(e, allFiles[i])}) = 1
            \/ /\ options.provider = "dropbox"
               /\ \E i \in DOMAIN allFiles :
                    IsProperPrefix(e.at, NonEmptyParts(Split(allFiles[i].path)))
       /\ Cardinality({i \in DOMAIN allFiles :
                         \E e \in entries : StandsFor(e, allFiles[i])})
            = Len(allFiles)

\* the segments of a flat-path record
PartsOf(record) == NonEmptyParts(Split(record.path))

\* C8: flat-path tree of records with pairwise distinct paths: each record's
\* node is the one reached by its path segments, a file node for a file and a
\* folder node for a folder, every segment before the last is a folder node, and
\* the tree holds nothing else.
C8_FlatPathShape ==
  ( /\ TreeBuilt
    /\ options.provider = "dropbox"
    /\ \A i, j \in DOMAIN allFiles : allFiles[i].path = allFiles[j].path => i = j )
  => LET entries == TreeEntries(fileTree, <<>>)
     IN /\ \A i \in DOMAIN allFiles :
             /\ \E e \in entries :
                  e.at = PartsOf(allFiles[i]) /\ e.type = allFiles[i].type
             /\ \A n \in 1..(Len(PartsOf(allFiles[i])) - 1) :
                  \E e \in entries :
                    e.at = SubSeq(PartsOf(allFiles[i]), 1, n) /\ e.type = "folder"
        /\ \A e \in entries :
             \E i \in DOMAIN allFiles :
               e.at = PartsOf(allFiles[i]) \/ IsProperPrefix(e.at, PartsOf(allFiles[i]))

\* the tree a fresh scanner builds from the records in the given order, or the
\* TypeError buildFileTree ends with
BuiltFrom(files) ==
  IF options.provider = "dropbox"
  THEN dropboxBuildFileTree(newFileTree("dropbox"), files)
  ELSE LET built == driveBuildFileTree(newFileTree("google"), <<>>, files)
       IN driveResolve(built.root, built.cache)

Orders(files) ==
  { [i \in DOMAIN files |-> files[p[i]]] :
      p \in { q \in [DOMAIN files -> DOMAIN files] :
                \A i, j \in DOMAIN files : q[i] = q[j] => i = j } }

\* C9: buildFileTree gives the same tree for every order in which the same
\* records are enumerated, in both variants.
C9_TreeIndependentOfOrder ==
  TreeBuilt => \A files \in Orders(allFiles) : BuiltFrom(files) = TreeValue

\* the order in which buildFileTree processes the records: Drive attaches the
\* folders first, then the files; Dropbox takes them as enumerated
ProcessingOrder ==
  IF options.provider = "dropbox" THEN allFiles
  ELSE SelectSeq(allFiles, LAMBDA f : IsFolder(f))
       \o SelectSeq(allFiles, LAMBDA f : ~IsFolder(f))

\* the folder buildFileTree places a record in, if any: the root, a fetched
\* Drive folder, or the Dropbox path without its last segment
PlacedIn(record) ==
  IF "path" \in DOMAIN record
  THEN [folder |-> SubSeq(PartsOf(record), 1, Len(PartsOf(record)) - 1)]
  ELSE IF record.parents = <<>> \/ record.parents[1] = <<"r","o","o","t">>
  THEN [folder |-> <<"r","o","o","t">>]
  ELSE IF record.parents[1] \in FetchedFolderIds
  THEN [folder |-> record.parents[1]]
  ELSE [nowhere |-> record.id]

\* the node kept under a record's name in the folder the record was placed in
NodeUnder(record) ==
  IF "path" \in DOMAIN record
  THEN CHOOSE e \in TreeEntries(fileTree, <<>>) : e.at = PartsOf(record)
  ELSE IF PlacedIn(record).folder = <<"r","o","o","t">>
  THEN driveResolve(fileTree.children[record.name], folderCache)
  ELSE driveResolve(folderCache[PlacedIn(record).folder].children[record.name],
                    folderCache)

\* C10: in both builders, of two records of the same name placed in the same
\* folder the children mapping keeps the node of the one processed last.
C10_LastWriteWins ==
  TreeBuilt =>
    \A i, j \in DOMAIN ProcessingOrder :
      LET a == ProcessingOrder[i]
          b == ProcessingOrder[j]
      IN ( /\ i < j
           /\ a.name = b.name
           /\ "folder" \in DOMAIN PlacedIn(a)
           /\ PlacedIn(a) = PlacedIn(b)
           /\ \A k \in DOMAIN ProcessingOrder :
                (k > j /\ ProcessingOrder[k].name = b.name)
                  => PlacedIn(ProcessingOrder[k]) # PlacedIn(b) )
         => /\ NodeUnder(b).id = b.id
            /\ NodeUnder(b).type = RecordType(b)


----------------------------------------------------------------------------
(* Properties of the snapshot cache *)

\* this invocation was given --use-cache and its provider's file held a snapshot:
\* the result in hand is the one loaded from the file
CacheHitRun ==
  /\ argv.useCache
  /\ options.useCache
  /\ pc \in {"report", "done"}

\* this invocation has run a live scan that returned a result
LiveScanReturned ==
  /\ ~options.useCache
  /\ pc \in {"saveCache", "report", "done"}

\* the result the live scan of this invocation returns for the state it is in
LiveResult ==
  getScanResults(sortFindings(discovered), fileTree, folderCache, Len(allFiles),
                 options.provider)

\* two tree nodes are equal by value: every property reads the same in both (a
\* property that is absent reads undefined), children compared node by node
RECURSIVE SameNode(_, _)
SameNode(a, b) ==
  /\ DOMAIN a \ {"size", "children"} = DOMAIN b \ {"size", "children"}
  /\ \A k \in DOMAIN a \ {"size", "children"} : a[k] = b[k]
  /\ sizeOf(a) = sizeOf(b)
  /\ ("children" \in DOMAIN a) = ("children" \in DOMAIN b)
  /\ "children" \in DOMAIN a =>
       /\ DOMAIN a.children = DOMAIN b.children
       /\ \A n \in DOMAIN a.children : SameNode(a.children[n], b.children[n])

\* the nodes below a node, at any depth
RECURSIVE NodesBelow(_)
NodesBelow(node) ==
  IF "children" \notin DOMAIN node THEN {}
  ELSE UNION { {node.children[n]} \cup NodesBelow(node.children[n]) :
               n \in DOMAIN node.children }

NoSnapshotAtStart ==
  LET content == cacheAtStart[getCachePath(argv.provider)]
  IN content.kind # "json" \/ "summary" \notin DOMAIN JSONparse(content)

\* C12: an invocation with --use-cache whose cache file gives no snapshot goes on
\* to authentication and a live scan; it leaves through the error exit only when
\* the authentication, a page request or the tree build fails, and what it hands
\* to the reporter is the result of the live scan.
C12_CacheMissFallsBack ==
  (argv.useCache /\ NoSnapshotAtStart /\ pc # "start") =>
    /\ ~options.useCache
    /\ pc = "exit1" =>
         \/ ~authenticated
         \/ fetchFailed
         \/ BuiltFrom(allFiles) = TypeError
    /\ pc \in {"saveCache", "report", "done"} =>
         /\ authenticated
         /\ requests = NumPages(remote)
         /\ scanResults = LiveResult
    /\ pc = "done" => reported = LiveResult

\* C12 witness: the file parsed to a value without summary, which was assigned to
\* scanResults, and the invocation has reported a live scan with findings
C12_Witness ==
  /\ argv.useCache
  /\ cacheAtStart[getCachePath(argv.provider)].kind = "json"
  /\ NoSnapshotAtStart
  /\ pc = "done"
  /\ Len(reported.vulnerableFiles) > 0

\* C13: when the cache write of an invocation has failed, the invocation goes on
\* to the reporter with the result the scan returned and does not take the error
\* exit; the cache files are as they were.
C13_CacheWriteFailureIgnored ==
  cacheWrite = "failed" =>
    /\ pc \in {"report", "done"}
    /\ scanResults = LiveResult
    /\ pc = "done" => reported = scanResults
    /\ cacheFiles = cacheAtStart

\* C13 witness: the write failed and the reporter has got a result with findings
C13_Witness ==
  /\ cacheWrite = "failed"
  /\ pc = "done"
  /\ Len(reported.vulnerableFiles) > 0

\* the label getScanResults gives the scanner class of a provider
ScannerLabel(provider) ==
  IF provider = "dropbox" THEN "DropboxScanner" ELSE "DriveScanner"

\* C14: an invocation changes no cache file but the one of its own provider key;
\* a successful cache write leaves in that file the result just scanned, and
\* each file keeps the last result written to it in the session; the snapshot an
\* invocation with --use-cache loads was written by a scan of the same provider.
C14_OneSnapshotPerProvider ==
  /\ \A K \in Providers :
       K # argv.provider =>
         cacheFiles[getCachePath(K)] = cacheAtStart[getCachePath(K)]
  /\ cacheWrite = "ok" =>
       cacheFiles[getCachePath(argv.provider)] = Json(JSONstringify(scanResults))
  /\ \A K \in Providers :
       written[getCachePath(K)] # <<>> =>
         /\ written[getCachePath(K)][1].by = K
         /\ cacheFiles[getCachePath(K)] =
              Json(JSONstringify(written[getCachePath(K)][1].result))
  /\ CacheHitRun =>
       /\ scanResults.summary.provider = ScannerLabel(argv.provider)
       /\ scanResults = JSONparse(cacheAtStart[getCachePath(argv.provider)])

\* C14 witness: the second invocation has saved a scan with findings for one
\* provider after the first had saved a scan with findings for the other one
C14_Witness ==
  /\ run = 2
  /\ cacheWrite = "ok"
  /\ Len(scanResults.vulnerableFiles) > 0
  /\ \E K \in Providers :
       /\ K # argv.provider
       /\ written[getCachePath(K)] # <<>>
       /\ Len(written[getCachePath(K)][1].result.vulnerableFiles) > 0
       /\ cacheAtStart[getCachePath(argv.provider)].kind = "json"

\* C15: an invocation with --use-cache that finds a snapshot in its provider's
\* file goes straight to the reporter with that snapshot, whatever its scanDate:
\* it does not authenticate, sends no page request and no folder lookup and
\* writes no cache file. Every other invocation that gets to a result has
\* authenticated, read every page, built the tree and sorted the findings.
C15_CacheHitUsesSnapshot ==
  /\ (argv.useCache /\ ~NoSnapshotAtStart /\ pc # "start") =>
       /\ pc \in {"report", "done"}
       /\ ~authenticated
       /\ requests = 0
       /\ lookups.sent = 0
       /\ cacheWrite = "none"
       /\ cacheFiles = cacheAtStart
       /\ scanResults = JSONparse(cacheAtStart[getCachePath(argv.provider)])
       /\ pc = "done" => reported = scanResults
  /\ (~(argv.useCache /\ ~NoSnapshotAtStart) /\ pc \in {"saveCache", "report", "done"}) =>
       /\ authenticated
       /\ requests = NumPages(remote)
       /\ allFiles = RemoteRecords
       /\ TreeValue = BuiltFrom(allFiles)
       /\ scanResults.fileTree = TreeValue
       /\ scanResults.vulnerableFiles = sortFindings(discovered)
       /\ pc = "done" => reported = scanResults

\* C15 witness: the snapshot of an earlier session (scanDate 0) has been reported
\* although caching was enabled
C15_Witness ==
  /\ argv.useCache
  /\ argv.cache
  /\ pc = "done"
  /\ "summary" \in DOMAIN reported
  /\ reported.summary.scanDate = 0
  /\ reported.summary.scanDate < run

\* a result without its scan date
Undated(result) == [result EXCEPT !.summary.scanDate = 0]

----------------------------------------------------------------------------
(* Properties of folder-path resolution and of the summary *)

\* the findings in the order in which the enumeration pushed them
Pushed ==
  IF pc \in {"saveCache", "report", "done"} THEN discovered ELSE vulnerableFiles

\* the records of a list that have risks, in order
Vulnerable(files) == SelectSeq(files, LAMBDA f : Len(risksOf[f]) > 0)

\* C17: in a Drive scan in which folder lookups have failed, the only way to the
\* error exit is a failed page request; every record enumerated that has risks is
\* a finding, in the order of enumeration, the listing is read to its end and
\* scanAllFiles returns a result.
C17_LookupFailureDoesNotAbort ==
  (options.provider = "google" /\ lookups.failed > 0) =>
    /\ pc = "exit1" => fetchFailed
    /\ [i \in DOMAIN Pushed |-> Pushed[i].file] = Vulnerable(allFiles)
    /\ ~fetchFailed =>
         /\ pc \in {"listFiles", "buildFileTree", "sort", "saveCache", "report", "done"}
         /\ pc # "listFiles" => allFiles = RemoteRecords
    /\ pc \in {"saveCache", "report", "done"} =>
         /\ "summary" \in DOMAIN scanResults
         /\ scanResults = LiveResult

\* C17 witness: a lookup failed while the first page was processed and the scan
\* has returned with a finding of that page and a finding of a later page
C17_Witness ==
  /\ options.provider = "google"
  /\ pc = "done"
  /\ requests >= 2
  /\ pageLookups(PageEntries(remote, 1), outages[1]).failed > 0
  /\ Len(Vulnerable(PageEntries(remote, 2))) > 0
  /\ Len(reported.vulnerableFiles) = Len(Vulnerable(allFiles))

\* position of a record in allFiles, and the page it came in
IndexOf(file) == CHOOSE i \in DOMAIN allFiles : allFiles[i] = file

PageOf(file) == (IndexOf(file) - 1) \div PageSize + 1

\* C18: in a Drive scan, a finding for whose file a folder lookup failed, for the
\* direct parent or for any higher ancestor, has the folder path '/'.
C18_FailedLookupGivesRoot ==
  options.provider = "google" =>
    \A i \in DOMAIN Pushed :
      (/\ ~IsFolder(Pushed[i].file)
       /\ folderLookups(Pushed[i].file.parents,
                        outages[PageOf(Pushed[i].file)]).failed > 0)
        => Pushed[i].folderPath = <<"/">>

\* C19: in a Drive scan that has returned, a finding whose file has no parents,
\* or a primary parent that is not the id of a folder record fetched in the
\* scan, has the folder path '/'.
C19_UnfetchedParentGivesRoot ==
  (options.provider = "google" /\ LiveScanReturned) =>
    \A i \in DOMAIN scanResults.vulnerableFiles :
      LET file == scanResults.vulnerableFiles[i].file
      IN (/\ ~IsFolder(file)
          /\ file.parents = <<>> \/ file.parents[1] \notin FetchedFolderIds)
           => scanResults.vulnerableFiles[i].folderPath = <<"/">>

\* C20: in the result a live scan returns, summary.totalFiles is the number of
\* records of the listing, folders included, and summary.vulnerableFiles is the
\* length of the findings list of that result.
C20_SummaryCounts ==
  LiveScanReturned =>
    /\ scanResults.summary.totalFiles = Len(remote)
    /\ scanResults.summary.totalFiles = Len(allFiles)
    /\ scanResults.summary.vulnerableFiles = Len(scanResults.vulnerableFiles)

\* C20 witness: a scan of more than one page with a folder record has returned
\* with fewer findings than records
C20_Witness ==
  /\ LiveScanReturned
  /\ requests >= 2
  /\ \E i \in DOMAIN allFiles : IsFolder(allFiles[i])
  /\ scanResults.summary.vulnerableFiles > 0
  /\ scanResults.summary.vulnerableFiles < scanResults.summary.totalFiles

----------------------------------------------------------------------------
(* The classifier on three names *)

HasRisk(finding, type, severity) ==
  \E k \in DOMAIN finding.risks :
    /\ finding.risks[k].type = type
    /\ finding.risks[k].severity = severity

FindingsOf(file) ==
  { i \in DOMAIN vulnerableFiles : vulnerableFiles[i].file = file }

----------------------------------------------------------------------------
(* --no-cache *)

\* C22: with --no-cache the cache file of the provider stays as it was before
\* the run, whatever the scan returns; without --no-cache, once the cache write
\* of a live scan has succeeded the file holds the serialized result of the scan.
C22_NoCacheLeavesFile ==
  /\ options.cache = FALSE =>
       cacheFiles[getCachePath(options.provider)] =
         cacheAtStart[getCachePath(options.provider)]
  /\ (options.cache # FALSE /\ cacheWrite = "ok") =>
       /\ scanResults = LiveResult
       /\ cacheFiles[getCachePath(options.provider)] = Json(JSONstringify(LiveResult))

\* a live scan with --no-cache has reported findings next to an older snapshot
C22_Witness ==
  /\ options.cache = FALSE
  /\ LiveScanReturned
  /\ pc = "done"
  /\ Len(reported.vulnerableFiles) > 0
  /\ cacheAtStart[getCachePath(options.provider)].kind = "json"

----------------------------------------------------------------------------
(* The token manager *)

\* what a tokens file stores for a provider
Stored(file, provider) ==
  IF file.kind = "json" /\ provider \in DOMAIN file.value
  THEN <<file.value[provider]>> ELSE <<>>

\* C23: saveTokens(p, t) and clearTokens(p) on a tokens file that parses leave
\* what is stored for every other provider as it was; loadTokens(p) right after
\* a successful saveTokens(p, t) returns t; loadTokens(p) ends in an error when
\* nothing is stored for p.
C23_TokensPerProvider ==
  tokenCall # None =>
    /\ (tokenCall.op \in {"saveTokens", "clearTokens"} /\ tokenCall.before.kind = "json") =>
         \A q \in Providers \ {tokenCall.provider} :
           Stored(tokensFile, q) = Stored(tokenCall.before, q)
    /\ ( /\ tokenCall.op = "loadTokens"
         /\ tokenCall.after # None
         /\ tokenCall.after.op = "saveTokens"
         /\ tokenCall.after.outcome = "ok"
         /\ tokenCall.after.provider = tokenCall.provider ) =>
         /\ tokenCall.outcome = "ok"
         /\ tokenCall.result = tokenCall.after.tokens
    /\ (tokenCall.op = "loadTokens" /\ Stored(tokenCall.before, tokenCall.provider) = <<>>) =>
         tokenCall.outcome = "error"

\* tokens were saved for one provider next to the stored tokens of the other
C23_Witness ==
  /\ tokenCall # None
  /\ tokenCall.op = "saveTokens"
  /\ tokenCall.outcome = "ok"
  /\ tokenCall.before.kind = "json"
  /\ \E q \in Providers \ {tokenCall.provider} : Stored(tokenCall.before, q) # <<>>
  /\ Stored(tokenCall.before, tokenCall.provider) # Stored(tokensFile, tokenCall.provider)

----------------------------------------------------------------------------
(* The order of the requests of a scan *)

\* the requests sent and not answered after the first k entries of the log
Outstanding(k) ==
  Cardinality({ j \in 1..k : events[j].op = "request" }) -
  Cardinality({ j \in 1..k : events[j].op = "response" })

\* the ids of the records pushed in the first k entries of the log, in order
RECURSIVE RecordedBefore(_)
RecordedBefore(k) ==
  IF k = 0 THEN <<>>
  ELSE IF events[k].op = "record" THEN Append(RecordedBefore(k - 1), events[k].id)
  ELSE RecordedBefore(k - 1)

\* the metadata requests the records of the first n pages call for
RECURSIVE LookupsOfPages(_)
LookupsOfPages(n) ==
  IF n = 0 THEN 0
  ELSE LookupsOfPages(n - 1) +
       (IF options.provider = "dropbox" THEN 0
        ELSE pageLookups(DriveListResponse(remote, n - 1).files, outages[n]).sent)

\* the records the remote hands out in its first n pages
FirstRecords(n) ==
  SubSeq(remote, 1, IF n * PageSize < Len(remote) THEN n * PageSize ELSE Len(remote))

\* C24: at most one request is outstanding at any point of the scan; when the
\* request for a page is sent, every record of the pages before it has been
\* pushed and classified, no request is outstanding, and (Drive) all the
\* metadata requests of those records' folder paths have been sent and answered.
C24_OneRequestAtATime ==
  /\ \A k \in 0..Len(events) : Outstanding(k) \in {0, 1}
  /\ \A k \in DOMAIN events :
       (events[k].op = "request" /\ events[k].what = "list") =>
         LET n == events[k].page - 1
         IN /\ Outstanding(k - 1) = 0
            /\ Len(RecordedBefore(k - 1)) = Len(FirstRecords(n))
            /\ \A i \in 1..Len(FirstRecords(n)) :
                 RecordedBefore(k - 1)[i] = FirstRecords(n)[i].id
            /\ Cardinality({ j \in 1..(k - 1) :
                   events[j].op = "response" /\ events[j].what = "get" })
                 = LookupsOfPages(n)

\* a second page was requested after a first page with two metadata requests
C24_Witness ==
  /\ options.provider # "dropbox"
  /\ \E k \in DOMAIN events :
       /\ events[k].op = "request"
       /\ events[k].what = "list"
       /\ events[k].page = 2
       /\ LookupsOfPages(1) >= 2

----------------------------------------------------------------------------
(* The order of the steps of scanAllFiles *)

\* the positions of the log where a step is taken
Steps(op) == { k \in DOMAIN events : events[k].op = op }

\* the tree build of this scan throws
BuildFails ==
  /\ options.provider = "dropbox"
  /\ dropboxBuildFileTree(newFileTree("dropbox"), allFiles).type = "TypeError"

\* C25: buildFileTree runs at most once, after the last page has been handled
\* and every record pushed, and nothing is requested after it; the sort comes
\* after the tree build and the result after the sort, each once; a result of a
\* live scan has all three behind it; when buildFileTree throws there is no
\* sort, no result, and the invocation takes the error exit.
C25_StepsInOrder ==
  /\ Cardinality(Steps("buildFileTree")) <= 1
  /\ Cardinality(Steps("sort")) <= 1
  /\ Cardinality(Steps("return")) <= 1
  /\ \A b \in Steps("buildFileTree") :
       /\ \A k \in DOMAIN events :
            events[k].op \in {"request", "response", "record"} => k < b
       /\ Cardinality({ k \in Steps("response") : events[k].what = "list" })
            = NumPages(remote)
       /\ Len(RecordedBefore(b - 1)) = Len(remote)
       /\ ~fetchFailed
  /\ \A s \in Steps("sort") : \E b \in Steps("buildFileTree") : b < s
  /\ \A r \in Steps("return") : \E s \in Steps("sort") : s < r
  /\ LiveScanReturned => Steps("return") # {}
  /\ (Steps("buildFileTree") # {} /\ BuildFails) =>
       /\ pc = "exit1"
       /\ Steps("sort") = {}
       /\ Steps("return") = {}
       /\ scanResults = None
       /\ reported = None

\* the tree build of a scan of two pages has thrown
C25_Witness ==
  /\ Steps("buildFileTree") # {}
  /\ BuildFails
  /\ NumPages(remote) = 2

----------------------------------------------------------------------------
(* The ids of the folder nodes of the flat-path tree *)

\* the folder records enumerated for a place of the tree
FolderRecordsAt(at) ==
  { i \in DOMAIN allFiles : allFiles[i].type = "folder" /\ PartsOf(allFiles[i]) = at }

\* C26: in the flat-path tree, a folder node at a place for which no folder
\* record was enumerated carries an id that is the id of no enumerated record.
C26_ImplicitFolderSyntheticId ==
  (TreeBuilt /\ options.provider = "dropbox") =>
    \A e \in TreeEntries(fileTree, <<>>) :
      (e.type = "folder" /\ FolderRecordsAt(e.at) = {}) =>
        \A i \in DOMAIN allFiles : e.id # allFiles[i].id

\* C27: in the flat-path tree, the folder node at the path of an enumerated
\* folder record carries the id of that record, in whatever order the records
\* were enumerated.
C27_FolderNodeCarriesRecordId ==
  (TreeBuilt /\ options.provider = "dropbox") =>
    \A e \in TreeEntries(fileTree, <<>>) :
      \A i \in FolderRecordsAt(e.at) :
        e.type = "folder" => e.id = allFiles[i].id

----------------------------------------------------------------------------
(* Termination of the folder path resolution *)

\* C28: a getFolderPath call comes to its end whatever parent metadata the
\* remote answers with, cyclic ancestor chains included.
C28_ResolutionTerminates ==
  <>(resolving.pc = "returned")

----------------------------------------------------------------------------
(* scanAllFiles twice on one scanner *)

\* C29: the second scanAllFiles call on a scanner returns the findings, the tree
\* and the summary counts the first call returned, the remote being the same and
\* the folder lookups having answered the same way.
C29_SecondCallSameResult ==
  (/\ LiveScanReturned
   /\ previous # <<>>
   /\ previous[1].outages = outages) =>
    /\ scanResults.vulnerableFiles = previous[1].result.vulnerableFiles
    /\ scanResults.fileTree = previous[1].result.fileTree
    /\ scanResults.summary.totalFiles = previous[1].result.summary.totalFiles
    /\ scanResults.summary.vulnerableFiles =
         previous[1].result.summary.vulnerableFiles

----------------------------------------------------------------------------
(* The findings of a returned result *)

\* how often a value occurs in a list
Occurrences(list, x) == Cardinality({ i \in DOMAIN list : list[i] = x })

\* one list is the other in another order
IsPermutation(a, b) ==
  /\ Len(a) = Len(b)
  /\ \A i \in DOMAIN a : Occurrences(a, a[i]) = Occurrences(b, a[i])

\* every finding of the returned result has a risk
EveryFindingHasRisk ==
  \A j \in DOMAIN scanResults.vulnerableFiles :
    Len(scanResults.vulnerableFiles[j].risks) >= 1

\* the returned list is the discovered findings in another order
SortKeepsFindings ==
  IsPermutation(scanResults.vulnerableFiles, discovered)

\* the records with a finding are the file records with a matching rule
FindingsAreMatchingFiles ==
  \A i \in DOMAIN allFiles :
    (\E j \in DOMAIN scanResults.vulnerableFiles :
        scanResults.vulnerableFiles[j].file = allFiles[i])
    <=> (~IsFolder(allFiles[i]) /\ matchingRulesOf[allFiles[i].name] # <<>>)

\* C30: in the result a live scan returns, every finding has at least one risk,
\* the findings are the discovered ones in another order, none dropped and none
\* twice, and exactly the file records with a matching rule have a finding.
C30_FindingsComplete ==
  LiveScanReturned =>
    /\ EveryFindingHasRisk
    /\ SortKeepsFindings
    /\ FindingsAreMatchingFiles
====
